---- MODULE Spec2Model ----
(***************************************************************************)
(* ruma-identifiers: the validated server-name identifier (ServerName) in  *)
(* its ownership forms (&ServerName, Box, Rc, Arc), and the decoding of    *)
(* the m.room.server_acl event content.                                    *)
(*                                                                         *)
(* Text is a sequence of one-character strings, so that copying, slicing   *)
(* and parsing act on the individual bytes.                                *)
(***************************************************************************)
EXTENDS Integers, Sequences, FiniteSets

VARIABLES heap, handles, last, acl

vars == <<heap, handles, last, acl>>

(***************************************************************************)
(* Bounds of the model.                                                    *)
(***************************************************************************)
\* the number of identifier holders (and so of allocations) alive at once
MaxHolders == 2
\* the length of the exhaustively enumerated input strings
MaxLen == 4
\* the length of the allow / deny lists of a decoded server-ACL content
MaxPatterns == 2

(***************************************************************************)
(* Characters.                                                             *)
(***************************************************************************)
Digits == {"0", "1", "2", "3", "4", "5", "6", "7", "8", "9"}

HexLetters == {"a", "b", "c", "d", "e", "f", "A", "B", "C", "D", "E", "F"}

Letters ==
  {"a", "b", "c", "d", "e", "f", "g", "h", "i", "j", "k", "l", "m",
   "n", "o", "p", "q", "r", "s", "t", "u", "v", "w", "x", "y", "z",
   "A", "B", "C", "D", "E", "F", "G", "H", "I", "J", "K", "L", "M",
   "N", "O", "P", "Q", "R", "S", "T", "U", "V", "W", "X", "Y", "Z"}

DigitVal(c) ==
  CASE c = "0" -> 0 [] c = "1" -> 1 [] c = "2" -> 2 [] c = "3" -> 3
    [] c = "4" -> 4 [] c = "5" -> 5 [] c = "6" -> 6 [] c = "7" -> 7
    [] c = "8" -> 8 [] c = "9" -> 9

\* the position of the first c in s, 0 when there is none
IndexOf(s, c) ==
  IF \E i \in 1..Len(s) : s[i] = c
  THEN CHOOSE i \in 1..Len(s) : s[i] = c /\ \A j \in 1..(i - 1) : s[j] # c
  ELSE 0

RECURSIVE Split(_, _)
\* the fields of s between the separators c (one field when c is absent)
Split(s, c) ==
  LET i == IndexOf(s, c)
  IN  IF i = 0 THEN <<s>>
      ELSE <<SubSeq(s, 1, i - 1)>> \o Split(SubSeq(s, i + 1, Len(s)), c)

RECURSIVE DecSat(_, _)
\* the decimal value of the digit string s after acc, saturating above 16 bits
DecSat(s, acc) ==
  IF s = <<>> THEN acc
  ELSE IF acc > 65535 THEN acc
  ELSE DecSat(Tail(s), acc * 10 + DigitVal(Head(s)))

AllDigits(s) == \A i \in 1..Len(s) : s[i] \in Digits

(***************************************************************************)
(* The grammar validator, ruma_identifiers_validation::server_name::       *)
(* validate, of the ruma-identifiers-validation crate: modelled from the   *)
(* grammar of the specification (sections 4.1 and 7).                      *)
(***************************************************************************)
\* a decimal integer in 0..=65535; empty and non-numeric text is no port
IsPort(s) == Len(s) > 0 /\ AllDigits(s) /\ DecSat(s, 0) <= 65535

IsOctet(s) == Len(s) \in 1..3 /\ AllDigits(s) /\ DecSat(s, 0) <= 255

\* dotted-decimal IPv4 address
IsIpv4(s) ==
  LET f == Split(s, ".")
  IN  Len(f) = 4 /\ \A i \in 1..4 : IsOctet(f[i])

IsHexGroup(s) ==
  Len(s) \in 1..4 /\ \A i \in 1..Len(s) : s[i] \in Digits \cup HexLetters

\* the number of 16-bit groups the fields f stand for, -1 when one of them is
\* malformed; the last field may be an embedded IPv4 address (two groups)
GroupCount(f) ==
  IF f = <<>> THEN 0
  ELSE IF \E i \in 1..(Len(f) - 1) : ~IsHexGroup(f[i]) THEN -1
  ELSE IF IsHexGroup(f[Len(f)]) THEN Len(f)
  ELSE IF IsIpv4(f[Len(f)]) THEN Len(f) + 1
  ELSE -1

FieldsOf(s) == IF s = <<>> THEN <<>> ELSE Split(s, ":")

\* a syntactically valid IPv6 address: eight groups, or fewer around one "::"
IsIpv6(s) ==
  LET dbl == {i \in 1..(Len(s) - 1) : s[i] = ":" /\ s[i + 1] = ":"}
  IN  IF dbl = {} THEN GroupCount(FieldsOf(s)) = 8
      ELSE IF Cardinality(dbl) > 1 THEN FALSE
      ELSE LET i == CHOOSE j \in dbl : TRUE
               hf == FieldsOf(SubSeq(s, 1, i - 1))
               t == GroupCount(FieldsOf(SubSeq(s, i + 2, Len(s))))
           IN  /\ \A k \in 1..Len(hf) : IsHexGroup(hf[k])
               /\ t >= 0
               /\ Len(hf) + t <= 7

IsLabel(s) ==
  /\ Len(s) > 0
  /\ \A i \in 1..Len(s) : s[i] \in Digits \cup Letters \cup {"-"}
  /\ s[1] # "-"
  /\ s[Len(s)] # "-"

\* a DNS name: non-empty labels of letters, digits and inner hyphens
IsDnsName(s) ==
  LET f == Split(s, ".")
  IN  Len(s) > 0 /\ \A i \in 1..Len(f) : IsLabel(f[i])

\* "Ok", or the category of the failure
validate(s) ==
  IF s = <<>> THEN "EmptyInput"
  ELSE IF s[1] = "["
  THEN LET close == IndexOf(s, "]")
       IN  IF close = 0 \/ ~IsIpv6(SubSeq(s, 2, close - 1))
           THEN "MalformedIPv6"
           ELSE LET rest == SubSeq(s, close + 1, Len(s))
                IN  IF rest = <<>> THEN "Ok"
                    ELSE IF rest[1] # ":" THEN "MalformedIPv6"
                    ELSE IF IsPort(Tail(rest)) THEN "Ok"
                    ELSE "InvalidPort"
  ELSE LET colon == IndexOf(s, ":")
           host == IF colon = 0 THEN s ELSE SubSeq(s, 1, colon - 1)
           port == SubSeq(s, colon + 1, Len(s))
       IN  IF ~(IsIpv4(host) \/ IsDnsName(host)) THEN "MalformedHost"
           ELSE IF colon = 0 THEN "Ok"
           ELSE IF IsPort(port) THEN "Ok"
           ELSE "InvalidPort"

(***************************************************************************)
(* The strings of the unit tests of server_name.rs.                         *)
(***************************************************************************)
str_ipv4_host == <<"1", "2", "7", ".", "0", ".", "0", ".", "1">>

str_ipv4_host_and_port ==
  <<"1", ".", "1", ".", "1", ".",
    "1", ":", "1", "2", "0", "0", "0">>

str_ipv6 == <<"[", ":", ":", "1", "]">>

str_ipv6_with_port ==
  <<"[", "1", "2", "3", "4", ":", "5", "6", "7", "8", ":",
    ":", "a", "b", "c", "d", "]", ":", "5", "6", "7", "8">>

str_dns_name == <<"e", "x", "a", "m", "p", "l", "e", ".", "c", "o", "m">>

str_dns_name_with_port ==
  <<"r", "u", "m", "a", ".", "i",
    "o", ":", "8", "0", "8", "0">>

str_empty_string == <<>>

str_invalid_ipv6 == <<"[", "t", "e", "s", "t", ":", ":", "1", "]">>

str_ipv4_with_invalid_port ==
  <<"1", "2", "7", ".", "0",
    ".", "0", ".", "1", ":">>

str_ipv6_with_invalid_port ==
  <<"[", "f", "e", "8", "0", ":", ":", "1",
    "]", ":", "1", "0", "0", "0", "0", "0">>

str_ipv6_with_trailing == <<"[", "f", "e", "8", "0", ":", ":", "1", "]", "!">>

str_dns_name_with_invalid_port ==
  <<"m", "a", "t", "r", "i", "x", ".", "o",
    "r", "g", ":", "h", "e", "l", "l", "o">>

AcceptCases ==
  {str_ipv4_host, str_ipv4_host_and_port, str_ipv6, str_ipv6_with_port,
   str_dns_name, str_dns_name_with_port}

RejectCases ==
  {str_empty_string, str_invalid_ipv6, str_ipv4_with_invalid_port,
   str_ipv6_with_invalid_port, str_ipv6_with_trailing,
   str_dns_name_with_invalid_port}

TestStrings == AcceptCases \cup RejectCases

\* the test strings that identifiers are built from while several are alive
LifeStrings ==
  {str_ipv6_with_port, str_dns_name, str_ipv4_host_and_port,
   str_empty_string, str_ipv6_with_trailing, str_dns_name_with_invalid_port}

\* further inputs at the edges of the grammar, longer than MaxLen
EdgeStrings ==
  {<<"[", ":", ":", "]">>,
   <<"[", ":", ":", "]", ":", "1">>,
   <<"[", ":", ":", "1", "]", ":">>,
   <<"[", ":", ":", "1", "]", "a">>,
   <<"[", ":", ":", "1">>,
   <<"a", ":", "6", "5", "5", "3", "5">>,
   <<"a", ":", "6", "5", "5", "3", "6">>,
   <<"a", ":", "0">>,
   <<"1", ".", "1", ".", "1", ".", "1">>,
   <<"1", ".", "1", ".", "1", ".", "1", ":">>,
   <<"a", "-", "a", ".", "a">>,
   <<"[", "1", ":", "1", ":", "1", ":", "1", ":", "1", ":", "1", ":", "1", ":", "1", "]">>,
   <<"[", "1", ":", "1", ":", "1", ":", "1", ":", "1", ":", "1", ":", "1", ":", "1", ":", "1", "]">>,
   <<"[", ":", ":", "1", ".", "1", ".", "1", ".", "1", "]">>,
   <<"[", ":", ":", "1", "]", ":", "-", "1">>,
   <<"a", ":", "1", "a">>,
   <<"a", ":", "1", ":", "1">>,
   <<"[", "a", "]">>,
   <<"[", "]">>,
   <<"[", ":", ":", "1", "]", "]">>}

(***************************************************************************)
(* Inputs.                                                                 *)
(***************************************************************************)
Alphabet == {"1", "a", ".", ":", "[", "]", "-"}

\* every string over Alphabet of length at most MaxLen
ShortStrings == UNION {[1..n -> Alphabet] : n \in 0..MaxLen}

GrammarInputs == ShortStrings \cup TestStrings \cup EdgeStrings

(***************************************************************************)
(* State.                                                                  *)
(*   heap[p]     an allocation: its kind ("free", "str" for a caller's     *)
(*               string that a &ServerName borrows, "box", "rc", "arc"),   *)
(*               its bytes, and the strong count of an Rc / Arc header     *)
(*   handles[p]  how many identifier holders point at p, and the input     *)
(*               text the identifier there was constructed from            *)
(*   last        the operation just run, its input and its result          *)
(*   acl         the server-ACL content just decoded, with its input       *)
(***************************************************************************)
Slots == 1..MaxHolders

FreeAlloc == [kind |-> "free", bytes |-> <<>>, strong |-> 0]

NoHandle == [n |-> 0, origin |-> <<>>]

Live == {p \in Slots : heap[p].kind # "free"}

Holders == {p \in Slots : handles[p].n > 0}

RECURSIVE SumHandles(_)
SumHandles(S) ==
  IF S = {} THEN 0
  ELSE LET p == CHOOSE q \in S : TRUE
       IN  handles[p].n + SumHandles(S \ {p})

HasRoom ==
  /\ SumHandles(Slots) < MaxHolders
  /\ \E p \in Slots : heap[p].kind = "free"

FreeSlot ==
  CHOOSE p \in Slots :
    heap[p].kind = "free" /\ \A q \in Slots : heap[q].kind = "free" => p <= q

ConstructionOps ==
  {"TryFromStrForRef", "FromStrForBox", "TryFromStrForBox",
   "TryFromStringForBox", "DeserializeBox"}

CopyingOps == {"ToOwned", "CloneBox", "BoxFromRef", "RcFromRef", "ArcFromRef"}

ConversionOps ==
  CopyingOps \cup {"CloneShared", "StringFromBox", "AsStr", "AsBytes"}

RenderOps == {"AsStr", "Display", "StringFromBox"}

Idle ==
  [op |-> "none", arg |-> <<>>, ok |-> TRUE, err |-> "none", out |-> <<>>,
   src |-> 0, dst |-> 0, validated |-> 0, copied |-> 0, made |-> 0]

(***************************************************************************)
(* ServerName: the reinterpreting casts and the read accessors.            *)
(***************************************************************************)
\* transmute of the &str fat pointer: the same bytes, viewed as a ServerName
from_borrowed(s) == s

\* Box<str> -> Box<ServerName>: the same buffer under the other type
from_owned(b) == b

\* Box<ServerName> -> Box<str>: the same buffer under the other type
into_owned(b) == b

as_str(p) == heap[p].bytes

as_bytes(p) == as_str(p)

\* CopyBytes with the length short by one
CopyBytes_Truncating(b) == SubSeq(b, 1, Len(b) - 1)

RECURSIVE CopyBytes(_)
\* a new buffer filled byte by byte from b (Box<str> / Rc<str> / Arc<str>
\* from &str)
CopyBytes(b) == IF b = <<>> THEN <<>> ELSE <<Head(b)>> \o CopyBytes(Tail(b))

\* fmt that pads the text, as a formatter with a width would
fmt_Padded(p) == as_str(p) \o <<" ">>

\* write!(f, "{}", self.as_str()): the text, appended to the formatter's output
fmt(p) == CopyBytes(as_str(p))

\* derive(PartialEq, Eq) on ServerName(str): equality of the contained str
ServerNameEq(p, q) == as_str(p) = as_str(q)

\* derive(Hash) on ServerName(str): what the Hasher is fed, the bytes of the
\* str and its 0xff terminator
ServerNameHash(p) == as_bytes(p) \o <<"0xff">>

(***************************************************************************)
(* Results of the fallible constructors.                                   *)
(***************************************************************************)
Failure(e) ==
  [ok |-> FALSE, err |-> e, bytes |-> <<>>, validated |-> 1, copied |-> 0]

Success(b, c) ==
  [ok |-> TRUE, err |-> "none", bytes |-> b, validated |-> 1, copied |-> c]

\* try_from without the call of validate
try_from_Unchecked(s, owned) ==
  IF owned THEN Success(from_owned(s), 0)
  ELSE Success(from_owned(CopyBytes(s)), 1)

\* fn try_from<S: AsRef<str> + Into<Box<str>>>: a &str is copied into a new
\* Box<str>, a String gives its own buffer
try_from(s, owned) ==
  LET v == validate(s)
  IN  IF v # "Ok" THEN Failure(v)
      ELSE IF owned THEN Success(from_owned(s), 0)
      ELSE Success(from_owned(CopyBytes(s)), 1)

\* the borrowed constructor without the call of validate
try_from_borrowed_Unchecked(s) == Success(from_borrowed(s), 0)

\* the borrowed constructor with the test of validate's result inverted
try_from_borrowed_Inverted(s) ==
  LET v == validate(s)
  IN  IF v = "Ok" THEN Failure(v) ELSE Success(from_borrowed(s), 0)

\* impl TryFrom<&str> for &ServerName
try_from_borrowed(s) ==
  LET v == validate(s)
  IN  IF v # "Ok" THEN Failure(v) ELSE Success(from_borrowed(s), 0)

\* crate::deserialize_id: the decoded string goes through the validator
deserialize_id(s) ==
  LET v == validate(s)
  IN  IF v # "Ok" THEN Failure(v) ELSE Success(CopyBytes(s), 1)

\* the state after a construction attempt with result r
Constructed(op, s, r, kind) ==
  /\ HasRoom
  /\ LET p == FreeSlot
     IN  /\ heap' =
               IF r.ok
               THEN [heap EXCEPT ![p] =
                       [kind |-> kind, bytes |-> r.bytes, strong |-> 0]]
               ELSE heap
         /\ handles' =
               IF r.ok
               THEN [handles EXCEPT ![p] = [n |-> 1, origin |-> s]]
               ELSE handles
         /\ last' =
               [op |-> op, arg |-> s, ok |-> r.ok, err |-> r.err,
                out |-> <<>>, src |-> 0, dst |-> IF r.ok THEN p ELSE 0,
                validated |-> r.validated, copied |-> r.copied,
                made |-> IF r.ok THEN 1 ELSE 0]
  /\ UNCHANGED acl

TryFromStrForRef(s) ==
  Constructed("TryFromStrForRef", s, try_from_borrowed(s), "str")

FromStrForBox(s) == Constructed("FromStrForBox", s, try_from(s, FALSE), "box")

TryFromStrForBox(s) ==
  Constructed("TryFromStrForBox", s, try_from(s, FALSE), "box")

TryFromStringForBox(s) ==
  Constructed("TryFromStringForBox", s, try_from(s, TRUE), "box")

DeserializeBox(s) == Constructed("DeserializeBox", s, deserialize_id(s), "box")

(***************************************************************************)
(* Ownership conversions.  Each takes a &ServerName, which any live holder *)
(* p dereferences to.                                                      *)
(***************************************************************************)
\* to_owned through the validating constructor
to_owned_Revalidating(p) ==
  [bytes |-> from_owned(CopyBytes(as_str(p))), validated |-> 1, copied |-> 1]

\* ToOwned::to_owned: Self::from_owned(self.0.into())
to_owned(p) ==
  [bytes |-> from_owned(CopyBytes(as_str(p))), validated |-> 0, copied |-> 1]

\* into_raw of a clone: the count stays one above the holders
rc_from_Leaking(p) ==
  [bytes |-> CopyBytes(as_str(p)), strong |-> 2, validated |-> 0, copied |-> 1]

\* Rc::<str>::from(s.as_str()), then into_raw / from_raw: one holder, count 1
rc_from(p) ==
  [bytes |-> CopyBytes(as_str(p)), strong |-> 1, validated |-> 0, copied |-> 1]

\* the Arc built from the text after its first byte
arc_from_Skipping(p) ==
  [bytes |-> CopyBytes(Tail(as_str(p))), strong |-> 1, validated |-> 0,
   copied |-> 1]

\* Arc::<str>::from(s.as_str()), then into_raw / from_raw: one holder, count 1
arc_from(p) ==
  [bytes |-> CopyBytes(as_str(p)), strong |-> 1, validated |-> 0, copied |-> 1]

\* the state after deriving a new holder of kind `kind` from the holder p
Converted(op, p, kind, c, strong) ==
  /\ p \in Holders
  /\ HasRoom
  /\ LET q == FreeSlot
     IN  /\ heap' = [heap EXCEPT ![q] =
                       [kind |-> kind, bytes |-> c.bytes, strong |-> strong]]
         /\ handles' = [handles EXCEPT ![q] =
                          [n |-> 1, origin |-> handles[p].origin]]
         /\ last' =
               [op |-> op, arg |-> <<>>, ok |-> TRUE, err |-> "none",
                out |-> <<>>, src |-> p, dst |-> q,
                validated |-> c.validated, copied |-> c.copied, made |-> 1]
  /\ UNCHANGED acl

ToOwned(p) == Converted("ToOwned", p, "box", to_owned(p), 0)

\* impl Clone for Box<ServerName>: (**self).to_owned()
CloneBox(p) ==
  /\ heap[p].kind = "box"
  /\ Converted("CloneBox", p, "box", to_owned(p), 0)

\* impl From<&ServerName> for Box<ServerName>: s.to_owned()
BoxFromRef(p) == Converted("BoxFromRef", p, "box", to_owned(p), 0)

RcFromRef(p) ==
  LET c == rc_from(p) IN Converted("RcFromRef", p, "rc", c, c.strong)

ArcFromRef(p) ==
  LET c == arc_from(p) IN Converted("ArcFromRef", p, "arc", c, c.strong)

\* Rc::clone / Arc::clone of a holder built above: one more holder of the same
\* allocation, the strong count raised, no byte touched
CloneShared(p) ==
  /\ p \in Holders
  /\ heap[p].kind \in {"rc", "arc"}
  /\ SumHandles(Slots) < MaxHolders
  /\ heap' = [heap EXCEPT ![p].strong = @ + 1]
  /\ handles' = [handles EXCEPT ![p].n = @ + 1]
  /\ last' =
        [op |-> "CloneShared", arg |-> <<>>, ok |-> TRUE, err |-> "none",
         out |-> <<>>, src |-> p, dst |-> p,
         validated |-> 0, copied |-> 0, made |-> 1]
  /\ UNCHANGED acl

\* a holder goes out of scope: a borrow ends, a Box frees its buffer, an Rc /
\* Arc lowers the strong count and frees the buffer when it reaches zero
DropHolder(p) ==
  /\ p \in Holders
  /\ LET shared == heap[p].kind \in {"rc", "arc"}
         freed == IF shared THEN heap[p].strong = 1 ELSE TRUE
     IN  /\ heap' =
               IF freed THEN [heap EXCEPT ![p] = FreeAlloc]
               ELSE [heap EXCEPT ![p].strong = @ - 1]
         /\ handles' =
               IF handles[p].n = 1 THEN [handles EXCEPT ![p] = NoHandle]
               ELSE [handles EXCEPT ![p].n = @ - 1]
  /\ last' =
        [op |-> "DropHolder", arg |-> <<>>, ok |-> TRUE, err |-> "none",
         out |-> <<>>, src |-> p, dst |-> 0,
         validated |-> 0, copied |-> 0, made |-> 0]
  /\ UNCHANGED acl

\* impl From<Box<ServerName>> for String: s.into_owned().into(); the Box's
\* buffer leaves the identifier type and becomes the String's
StringFromBox(p) ==
  /\ p \in Holders
  /\ heap[p].kind = "box"
  /\ last' =
        [op |-> "StringFromBox", arg |-> handles[p].origin, ok |-> TRUE,
         err |-> "none", out |-> into_owned(heap[p].bytes), src |-> p,
         dst |-> p, validated |-> 0, copied |-> 0, made |-> 0]
  /\ heap' = [heap EXCEPT ![p] = FreeAlloc]
  /\ handles' = [handles EXCEPT ![p] = NoHandle]
  /\ UNCHANGED acl

\* the state after reading the text of the holder p
Rendered(op, p, text, copied) ==
  /\ p \in Holders
  /\ last' =
        [op |-> op, arg |-> handles[p].origin, ok |-> TRUE, err |-> "none",
         out |-> text, src |-> p, dst |-> IF copied = 0 THEN p ELSE 0,
         validated |-> 0, copied |-> copied, made |-> 0]
  /\ UNCHANGED <<heap, handles, acl>>

AsStr(p) == Rendered("AsStr", p, as_str(p), 0)

AsBytes(p) == Rendered("AsBytes", p, as_bytes(p), 0)

DisplayFmt(p) == Rendered("Display", p, fmt(p), 1)

\* <Box<ServerName>>::try_from(p.to_string().as_str()): the rendered text of an
\* existing identifier, validated again
ReParse(p) ==
  /\ p \in Holders
  /\ HasRoom
  /\ LET s == fmt(p)
         r == try_from(s, FALSE)
         q == FreeSlot
     IN  /\ heap' =
               IF r.ok
               THEN [heap EXCEPT ![q] =
                       [kind |-> "box", bytes |-> r.bytes, strong |-> 0]]
               ELSE heap
         /\ handles' =
               IF r.ok
               THEN [handles EXCEPT ![q] = [n |-> 1, origin |-> s]]
               ELSE handles
         /\ last' =
               [op |-> "ReParse", arg |-> s, ok |-> r.ok, err |-> r.err,
                out |-> <<>>, src |-> p, dst |-> IF r.ok THEN q ELSE 0,
                validated |-> r.validated, copied |-> r.copied,
                made |-> IF r.ok THEN 1 ELSE 0]
  /\ UNCHANGED acl

(***************************************************************************)
(* m.room.server_acl: the content object with any of its fields omitted.   *)
(* A field of the input is <<>> when absent and <<v>> when present.        *)
(***************************************************************************)
Patterns == {<<"*">>, <<"?", ".", "a">>, <<>>}

PatternLists == UNION {[1..n -> Patterns] : n \in 0..MaxPatterns}

Optional(S) == {<<>>} \cup {<<v>> : v \in S}

ContentObjects ==
  [allow_ip_literals : Optional(BOOLEAN),
   allow : Optional(PatternLists),
   deny : Optional(PatternLists)]

\* ruma_serde::default_true
default_true == TRUE

\* Vec::default
default_vec == <<>>

\* the flag with serde(default) alone: bool::default()
ServerAclEventContent_BoolDefault(obj) ==
  [allow_ip_literals |->
     IF obj.allow_ip_literals = <<>> THEN FALSE
     ELSE obj.allow_ip_literals[1],
   allow |-> IF obj.allow = <<>> THEN default_vec ELSE obj.allow[1],
   deny |-> IF obj.deny = <<>> THEN default_vec ELSE obj.deny[1]]

\* derive(Deserialize) on ServerAclEventContent with its serde(default)
\* attributes
ServerAclEventContent(obj) ==
  [allow_ip_literals |->
     IF obj.allow_ip_literals = <<>> THEN default_true
     ELSE obj.allow_ip_literals[1],
   allow |-> IF obj.allow = <<>> THEN default_vec ELSE obj.allow[1],
   deny |-> IF obj.deny = <<>> THEN default_vec ELSE obj.deny[1]]

\* no content decoded yet
NoContent == [allow_ip_literals |-> FALSE, allow |-> <<>>, deny |-> <<>>]

NoObject == [allow_ip_literals |-> <<>>, allow |-> <<>>, deny |-> <<>>]

DecodeServerAcl ==
  /\ ~acl.decoded
  /\ acl' = [acl EXCEPT !.decoded = TRUE,
                        !.content = ServerAclEventContent(acl.input)]
  /\ UNCHANGED <<heap, handles, last>>

(***************************************************************************)
(* Specifications.                                                         *)
(***************************************************************************)
Init ==
  /\ heap = [p \in Slots |-> FreeAlloc]
  /\ handles = [p \in Slots |-> NoHandle]
  /\ last = Idle
  /\ acl = [decoded |-> FALSE, input |-> NoObject, content |-> NoContent]

\* the life of identifiers built from the strings of the unit tests
Next ==
  \/ \E s \in LifeStrings : TryFromStrForRef(s)
  \/ \E s \in LifeStrings : FromStrForBox(s)
  \/ \E s \in LifeStrings : TryFromStrForBox(s)
  \/ \E s \in LifeStrings : TryFromStringForBox(s)
  \/ \E s \in LifeStrings : DeserializeBox(s)
  \/ \E p \in Slots : ToOwned(p)
  \/ \E p \in Slots : CloneBox(p)
  \/ \E p \in Slots : BoxFromRef(p)
  \/ \E p \in Slots : RcFromRef(p)
  \/ \E p \in Slots : ArcFromRef(p)
  \/ \E p \in Slots : CloneShared(p)
  \/ \E p \in Slots : DropHolder(p)
  \/ \E p \in Slots : StringFromBox(p)
  \/ \E p \in Slots : AsStr(p)
  \/ \E p \in Slots : AsBytes(p)
  \/ \E p \in Slots : DisplayFmt(p)
  \/ \E p \in Slots : ReParse(p)

Spec == Init /\ [][Next]_vars

\* the validator as a function of its input: the input is drawn first, then one
\* construction entry point is applied to it
InitGrammar ==
  /\ heap = [p \in Slots |-> FreeAlloc]
  /\ handles = [p \in Slots |-> NoHandle]
  /\ last \in {[Idle EXCEPT !.arg = s] : s \in GrammarInputs}
  /\ acl = [decoded |-> FALSE, input |-> NoObject, content |-> NoContent]

NextGrammar ==
  \/ last.op = "none" /\ TryFromStrForRef(last.arg)
  \/ last.op = "none" /\ FromStrForBox(last.arg)
  \/ last.op = "none" /\ TryFromStrForBox(last.arg)
  \/ last.op = "none" /\ TryFromStringForBox(last.arg)
  \/ last.op = "none" /\ DeserializeBox(last.arg)
  \/ \E p \in Slots : AsStr(p)
  \/ \E p \in Slots : DisplayFmt(p)
  \/ \E p \in Slots : StringFromBox(p)
  \/ \E p \in Slots : DropHolder(p)

SpecGrammar == InitGrammar /\ [][NextGrammar]_vars

\* the decoder as a function of its input: the content object is drawn first
InitAcl ==
  /\ heap = [p \in Slots |-> FreeAlloc]
  /\ handles = [p \in Slots |-> NoHandle]
  /\ last = Idle
  /\ acl \in {[decoded |-> FALSE, input |-> obj, content |-> NoContent] :
               obj \in ContentObjects}

NextAcl == DecodeServerAcl

SpecAcl == InitAcl /\ [][NextAcl]_vars

(***************************************************************************)
(* The grammar, stated by its shape rather than by the order of parsing.   *)
(***************************************************************************)
IsBracketedIpv6(h) ==
  Len(h) >= 2 /\ h[1] = "[" /\ h[Len(h)] = "]"
  /\ IsIpv6(SubSeq(h, 2, Len(h) - 1))

IsHost(h) == IsIpv4(h) \/ IsDnsName(h) \/ IsBracketedIpv6(h)

\* a host, optionally followed by ':' and a port
InGrammar(s) ==
  \E k \in 1..Len(s) :
    /\ IsHost(SubSeq(s, 1, k))
    /\ \/ k = Len(s)
       \/ s[k + 1] = ":" /\ IsPort(SubSeq(s, k + 2, Len(s)))

\* a '[' whose content up to the first ']' is no IPv6 address
BadBracket(s) ==
  /\ s # <<>>
  /\ s[1] = "["
  /\ LET c == IndexOf(s, "]")
     IN  c = 0 \/ ~IsIpv6(SubSeq(s, 2, c - 1))

\* a host and ':' followed by an empty, non-numeric or out-of-range port
BadPort(s) ==
  \E k \in 1..Len(s) :
    s[k] = ":" /\ IsHost(SubSeq(s, 1, k - 1))
    /\ ~IsPort(SubSeq(s, k + 1, Len(s)))

\* a bracketed IPv6 literal followed by something other than ':'
TrailingJunk(s) ==
  \E k \in 1..(Len(s) - 1) :
    IsBracketedIpv6(SubSeq(s, 1, k)) /\ s[k + 1] # ":"

(***************************************************************************)
(* Properties.                                                             *)
(***************************************************************************)
\* C1: every ServerName that exists, in whichever ownership form, sits in a
\* live allocation and holds content that is non-empty and that the grammar
\* validator accepts
C1_EveryInstanceValidated ==
  \A p \in Slots :
    handles[p].n > 0 =>
      /\ heap[p].kind # "free"
      /\ as_str(p) # <<>>
      /\ validate(as_str(p)) = "Ok"

\* an Rc derived from a borrowed identifier, both alive
C1_Witness ==
  /\ last.op = "RcFromRef"
  /\ \E p, q \in Holders : heap[p].kind = "str" /\ heap[q].kind = "rc"

\* C2: each construction entry point returns an identifier if and only if the
\* validator accepts the input, and otherwise returns the validator's failure
\* and produces no identifier
C2_EntryPointsRouteThroughValidator ==
  last.op \in ConstructionOps =>
    /\ last.ok <=> validate(last.arg) = "Ok"
    /\ last.ok =>
         /\ last.err = "none"
         /\ last.made = 1
         /\ Holders = {last.dst}
         /\ handles[last.dst].n = 1
    /\ ~last.ok =>
         /\ last.err = validate(last.arg)
         /\ last.made = 0
         /\ last.dst = 0
         /\ Holders = {}
         /\ Live = {}

\* deserialization of an out-of-range port fails with the validator's error
C2_Witness ==
  /\ last.op = "DeserializeBox"
  /\ last.arg = str_ipv6_with_invalid_port
  /\ ~last.ok
  /\ last.err = "InvalidPort"

\* C3: rendering an identifier (as_str, Display, String::from of the Box)
\* yields exactly the string it was constructed from
C3_RoundTrip == last.op \in RenderOps => last.out = last.arg

\* the String made from the Box built from "[1234:5678::abcd]:5678"
C3_Witness ==
  /\ last.op = "StringFromBox"
  /\ last.arg = str_ipv6_with_port
  /\ last.out = str_ipv6_with_port

\* C4: validating the rendered text of an existing identifier succeeds and
\* gives an identifier equal to it
C4_IdempotentValidation ==
  last.op = "ReParse" =>
    /\ last.ok
    /\ last.dst \in Holders
    /\ last.src \in Holders
    /\ last.dst # last.src
    /\ ServerNameEq(last.dst, last.src)

\* an Arc holding "example.com" validated again
C4_Witness ==
  /\ last.op = "ReParse"
  /\ last.ok
  /\ heap[last.src].kind = "arc"
  /\ as_str(last.dst) = str_dns_name

\* C5: two identifiers, in whichever ownership forms, compare equal exactly
\* when they were constructed from the same string, and then hash identically
C5_OwnershipFormEquality ==
  \A p, q \in Holders :
    /\ ServerNameEq(p, q) <=> handles[p].origin = handles[q].origin
    /\ handles[p].origin = handles[q].origin =>
         ServerNameHash(p) = ServerNameHash(q)

\* a borrowed identifier and an Arc of the same string, in two allocations
C5_Witness ==
  \E p, q \in Holders :
    /\ p # q
    /\ heap[p].kind = "str"
    /\ heap[q].kind = "arc"
    /\ handles[p].origin = handles[q].origin
    /\ ServerNameEq(p, q)

\* C6: a shared allocation's strong count is the number of its holders and its
\* content is unchanged while any holder remains; an allocation is live exactly
\* as long as it has a holder; a clone copies no byte
C6_SharingCorrect ==
  /\ \A p \in Slots :
       /\ heap[p].kind # "free" <=> handles[p].n > 0
       /\ heap[p].kind \in {"rc", "arc"} =>
            /\ heap[p].strong = handles[p].n
            /\ as_str(p) = handles[p].origin
  /\ last.op = "CloneShared" =>
       /\ last.copied = 0
       /\ last.dst = last.src
       /\ heap[last.src].strong >= 2

\* one holder of an Rc dropped, the other still holding the content
C6_Witness ==
  /\ last.op = "DropHolder"
  /\ heap[last.src].kind = "rc"
  /\ handles[last.src].n = 1
  /\ as_str(last.src) = str_ipv6_with_port

\* C7: every entry point accepts every string of the grammar, the six accept
\* cases of the tests among them
C7_AcceptsGrammar ==
  last.op \in ConstructionOps
    /\ (last.arg \in AcceptCases \/ InGrammar(last.arg))
    => last.ok /\ Holders = {last.dst}

\* "[1234:5678::abcd]:5678" accepted by the borrowed constructor
C7_Witness ==
  /\ last.op = "TryFromStrForRef"
  /\ last.arg = str_ipv6_with_port
  /\ last.ok

\* C8: every entry point rejects the empty string, a bracket without an IPv6
\* address in it, a bad port, trailing characters after a bracketed literal,
\* and every other string outside the grammar
C8_RejectsOutsideGrammar ==
  last.op \in ConstructionOps =>
    LET s == last.arg
    IN  (s = <<>> \/ s \in RejectCases \/ BadBracket(s) \/ BadPort(s)
           \/ TrailingJunk(s) \/ ~InGrammar(s))
          => ~last.ok /\ Holders = {}

\* "[fe80::1]!" rejected by the borrowed constructor
C8_Witness ==
  /\ last.op = "TryFromStrForRef"
  /\ last.arg = str_ipv6_with_trailing
  /\ TrailingJunk(last.arg)
  /\ ~last.ok

\* C9: a decoded server-ACL content has each omitted field at its default
\* (true, empty, empty) and each present field as given, the host patterns
\* taken as they are, whether or not they are server names
C9_AclDefaults ==
  acl.decoded =>
    /\ acl.content.allow_ip_literals =
         (IF acl.input.allow_ip_literals = <<>> THEN TRUE
          ELSE acl.input.allow_ip_literals[1])
    /\ acl.content.allow =
         (IF acl.input.allow = <<>> THEN <<>> ELSE acl.input.allow[1])
    /\ acl.content.deny =
         (IF acl.input.deny = <<>> THEN <<>> ELSE acl.input.deny[1])

\* the empty content object, decoded
C9_Witness ==
  /\ acl.decoded
  /\ acl.input = NoObject
  /\ acl.content = [allow_ip_literals |-> TRUE, allow |-> <<>>, deny |-> <<>>]

\* C10: a construction attempt calls the validator once; an ownership
\* conversion never calls it, and either reuses the buffer of its source or
\* copies the bytes once into another
C10_ValidatedOnce ==
  /\ last.op \in ConstructionOps \cup {"ReParse"} => last.validated = 1
  /\ last.op \in ConversionOps =>
       /\ last.validated = 0
       /\ \/ last.dst = last.src /\ last.copied = 0
          \/ last.dst # last.src /\ last.copied = 1 /\ last.dst \in Holders

\* a Box made by to_owned from an Arc
C10_Witness ==
  /\ last.op = "ToOwned"
  /\ heap[last.src].kind = "arc"
  /\ heap[last.dst].kind = "box"
  /\ last.copied = 1
====
